---- MODULE Spec2Model ----
(***************************************************************************)
(* Model of .github/scripts/sync-incident.ts: the incident parser and      *)
(* mirroring script.  One run of module.exports is a state machine whose   *)
(* steps are the code between two awaits; the helper functions             *)
(* (GOOGLE_DOC_REGEX, extractMarkdownField, formatDateForGitHub) are       *)
(* operators over strings, computed the way the JavaScript computes them.  *)
(***************************************************************************)
EXTENDS Integers, Sequences, FiniteSets, TLC

VARIABLES
  pc,               \* position of the run: the await it is suspended at
  payload,          \* context.payload of the triggering event
  env,              \* process.env, each variable fixed when the code reads it
  engine,           \* the JavaScript engine's Date parser (see DateParse)
  calls,            \* network calls issued so far, in order
  failed,           \* message given to core.setFailed, or Null
  warnings,         \* messages given to core.warning, in order
  notices,          \* messages given to core.notice, in order
  data,             \* IssueData returned by parseIssueData
  incidentDetails,  \* the incidentDetails object
  newIssue,         \* response of issues.create
  projectData,      \* response of getProjectData
  comments,         \* comments the original issue has received
  markdownText,     \* text returned by fetchGoogleDocContent
  fieldIdx,         \* index in FieldUpdates of the field update being awaited
  docId,            \* the document identifier found in the description
  rows,             \* table rows the Markdown text under test is made of
  markdown,         \* extractMarkdownField: its markdown argument
  fieldName,        \* extractMarkdownField: its fieldName argument
  extracted,        \* extractMarkdownField: its result
  dateParts,        \* the pieces the date text under test is made of
  dateString,       \* formatDateForGitHub: its argument
  formatted,        \* formatDateForGitHub: its result
  dateUpdate,       \* updateProjectDateField: what it did with that result
  templateParts,    \* the pieces the template under test is made of
  template,         \* text read from the template file
  replacements,     \* entries of the replacements object, in insertion order
  mirroredIssueBody, \* the template after the replacement loop
  outputs           \* name and value of each core.setOutput, in order

runVars == <<pc, payload, env, calls, failed, warnings, notices, data, markdownText,
             incidentDetails, newIssue, projectData, fieldIdx, comments, docId>>
extractVars == <<rows, markdown, fieldName, extracted>>
dateVars == <<dateParts, dateString, formatted, dateUpdate>>
renderVars == <<templateParts, template, replacements, mirroredIssueBody>>
vars == <<runVars, engine, extractVars, dateVars, renderVars, outputs>>

(***************************************************************************)
(* JavaScript values.  null and undefined are one value, Null; a string is *)
(* a TLA+ string, read character by character with SubSeq.                 *)
(***************************************************************************)
Null == "<null>"

At(s, i) == SubSeq(s, i, i)

From(s, i) == SubSeq(s, i, Len(s))

StartsWithAt(s, i, p) ==
  /\ i >= 1
  /\ i + Len(p) - 1 <= Len(s)
  /\ SubSeq(s, i, i + Len(p) - 1) = p

CharsOf(s) == {At(s, i) : i \in 1..Len(s)}

LowerLetters == "abcdefghijklmnopqrstuvwxyz"
UpperLetters == "ABCDEFGHIJKLMNOPQRSTUVWXYZ"
Digits == "0123456789"

LowerChars == CharsOf(LowerLetters)
UpperChars == CharsOf(UpperLetters)
DigitChars == CharsOf(Digits)

IsDigit(c) == c \in DigitChars

\* \s of a regular expression and the characters String.prototype.trim strips
IsSpace(c) == c \in {" ", "\t", "\n", "\r"}

\* case folding of the regular expression's "i" flag
LowerChar(c) ==
  IF c \in UpperChars
    THEN At(LowerLetters, CHOOSE i \in 1..Len(UpperLetters) : At(UpperLetters, i) = c)
    ELSE c

\* value || "" : a falsy string operand becomes the empty string
OrEmpty(v) == IF v = Null THEN "" ELSE v

\* !value for a string operand: null, undefined and "" are falsy
Falsy(v) == v = Null \/ v = ""

\* String.prototype.trim
Trim(s) ==
  LET keep == {i \in 1..Len(s) : ~IsSpace(At(s, i))}
  IN IF keep = {} THEN ""
     ELSE SubSeq(s, CHOOSE i \in keep : \A j \in keep : i <= j,
                    CHOOSE i \in keep : \A j \in keep : i >= j)

\* Number(s) of a string of decimal digits
RECURSIVE ToNumber(_)
ToNumber(s) ==
  IF s = "" THEN 0
  ELSE 10 * ToNumber(SubSeq(s, 1, Len(s) - 1))
       + (CHOOSE d \in 0..9 : At(Digits, d + 1) = At(s, Len(s)))

(***************************************************************************)
(* GOOGLE_DOC_REGEX and description.match(GOOGLE_DOC_REGEX)                *)
(***************************************************************************)
\* the literal part of /docs\.google\.com\/document\/d\/([a-zA-Z0-9-_]+)/
GoogleDocPrefix == "docs.google.com/document/d/"

\* the class [a-zA-Z0-9-_]
IsDocIdChar(c) ==
  c \in LowerChars \cup UpperChars \cup DigitChars \cup {"-", "_"}

\* the greedy run matched by [a-zA-Z0-9-_]+ from position i: its last position
RECURSIVE DocIdEnd(_, _)
DocIdEnd(s, i) ==
  IF i + 1 <= Len(s) /\ IsDocIdChar(At(s, i + 1)) THEN DocIdEnd(s, i + 1) ELSE i

\* the pattern with its dots left unescaped: each "." stands for any character
GoogleDocMatchUnescaped(description) ==
  LET n == Len(GoogleDocPrefix)
      starts == {i \in 1..Len(description) :
                   /\ i + n <= Len(description)
                   /\ \A k \in 1..n : \/ At(GoogleDocPrefix, k) = "."
                                       \/ At(description, i + k - 1) = At(GoogleDocPrefix, k)
                   /\ IsDocIdChar(At(description, i + n))}
  IN IF starts = {} THEN Null
     ELSE LET i == CHOOSE k \in starts : \A j \in starts : k <= j
          IN SubSeq(description, i + n, DocIdEnd(description, i + n))

\* match[1] of description.match(GOOGLE_DOC_REGEX), or Null when there is no match:
\* the leftmost place where the literal is followed by at least one id character,
\* and the longest run of id characters from there
GoogleDocMatch(description) ==
  LET n == Len(GoogleDocPrefix)
      starts == {i \in 1..Len(description) :
                   /\ StartsWithAt(description, i, GoogleDocPrefix)
                   /\ i + n <= Len(description)
                   /\ IsDocIdChar(At(description, i + n))}
  IN IF starts = {} THEN Null
     ELSE LET i == CHOOSE k \in starts : \A j \in starts : k <= j
          IN SubSeq(description, i + n, DocIdEnd(description, i + n))

(***************************************************************************)
(* extractMarkdownField.  The pattern is built from the escaped field name *)
(* and handed to new RegExp, so the model keeps both steps: the escaping   *)
(* of the name, and the reading of the escaped text as a pattern.  Field   *)
(* names are letters, digits, spaces, "/", "#", "(", ")" and "."; of the   *)
(* pattern characters only "(", ")" and "." can therefore reach RegExp     *)
(* unescaped, and NameAtoms gives each its meaning as a pattern.  A name   *)
(* begins with a letter and does not end with a space, so the greedy \s*   *)
(* and the optional markers never have to give a character back.           *)
(***************************************************************************)
\* the class [.*+?^${}()|[\]\\] of the escaping replace
RegExpSpecials == {".", "*", "+", "?", "^", "$", "{", "}", "(", ")", "|", "[", "]", "\\"}

\* fieldName.replace(/[.*+?^${}()|[\]\\]/g, "\\$&")
RECURSIVE EscapeRegExp(_)
EscapeRegExp(name) ==
  IF name = "" THEN ""
  ELSE (IF At(name, 1) \in RegExpSpecials THEN "\\" \o At(name, 1) ELSE At(name, 1))
       \o EscapeRegExp(From(name, 2))

\* the escaped name read as a pattern: "\c" is the character c, "." is any
\* character but a line terminator, "(" and ")" delimit a group and match nothing
RECURSIVE NameAtoms(_)
NameAtoms(p) ==
  IF p = "" THEN <<>>
  ELSE IF At(p, 1) = "\\" /\ Len(p) >= 2
         THEN <<[kind |-> "lit", ch |-> At(p, 2)]>> \o NameAtoms(From(p, 3))
  ELSE IF At(p, 1) = "."
         THEN <<[kind |-> "any", ch |-> "."]>> \o NameAtoms(From(p, 2))
  ELSE IF At(p, 1) \in {"(", ")"}
         THEN <<[kind |-> "group", ch |-> At(p, 1)]>> \o NameAtoms(From(p, 2))
  ELSE <<[kind |-> "lit", ch |-> At(p, 1)]>> \o NameAtoms(From(p, 2))

\* the position after the atoms matched from position i (flag "i"), or 0
RECURSIVE AtomsEnd(_, _, _)
AtomsEnd(atoms, s, i) ==
  IF atoms = <<>> THEN i
  ELSE LET a == Head(atoms) IN
       IF a.kind = "group" THEN AtomsEnd(Tail(atoms), s, i)
       ELSE IF i > Len(s) THEN 0
       ELSE IF a.kind = "any" /\ At(s, i) \notin {"\n", "\r"}
              THEN AtomsEnd(Tail(atoms), s, i + 1)
       ELSE IF a.kind = "lit" /\ LowerChar(At(s, i)) = LowerChar(a.ch)
              THEN AtomsEnd(Tail(atoms), s, i + 1)
       ELSE 0

\* the position after the greedy \s* from position i
RECURSIVE SkipSpace(_, _)
SkipSpace(s, i) ==
  IF i <= Len(s) /\ IsSpace(At(s, i)) THEN SkipSpace(s, i + 1) ELSE i

\* the position after the optional (?:\*\*|__)? from position i
SkipMarker(s, i) ==
  IF StartsWithAt(s, i, "**") \/ StartsWithAt(s, i, "__") THEN i + 2 ELSE i

\* the position after the greedy [^|]+ from position i (i itself when it matches nothing)
RECURSIVE CellEnd(_, _)
CellEnd(s, i) ==
  IF i <= Len(s) /\ At(s, i) # "|" THEN CellEnd(s, i + 1) ELSE i

\* match[1] of the pattern  \|\s*(?:\*\*|__)?NAME(?:\*\*|__)?\s*\|([^|]+)\|
\* tried at position i, or Null when the pattern does not match there
MatchRowAt(s, i, atoms) ==
  IF At(s, i) # "|" THEN Null
  ELSE LET n == AtomsEnd(atoms, s, SkipMarker(s, SkipSpace(s, i + 1)))
       IN IF n = 0 THEN Null
          ELSE LET q == SkipSpace(s, SkipMarker(s, n))
                   k == CellEnd(s, q + 1)
               IN IF /\ q <= Len(s) /\ At(s, q) = "|"
                     /\ k > q + 1
                     /\ k <= Len(s) /\ At(s, k) = "|"
                    THEN SubSeq(s, q + 1, k - 1)
                    ELSE Null

\* markdown.match(regex): match[1] of the leftmost match, or Null
MatchRow(s, atoms) ==
  LET hits == {i \in 1..Len(s) : MatchRowAt(s, i, atoms) # Null}
  IN IF hits = {} THEN Null
     ELSE MatchRowAt(s, CHOOSE i \in hits : \A j \in hits : i <= j, atoms)

\* lines 45-49: value = match[1].trim(); the three placeholders become "Not Specified"
\* a variant that keeps the cell's surrounding blanks
NormalizeCellUntrimmed(cell) ==
  IF cell = "SELECT" \/ cell = "" \/ cell = "N/A" THEN "Not Specified" ELSE cell

NormalizeCell(cell) ==
  LET value == Trim(cell)
  IN IF value = "SELECT" \/ value = "" \/ value = "N/A" THEN "Not Specified" ELSE value

extractMarkdownField(md, name) ==
  LET safeFieldName == EscapeRegExp(name)
      match == MatchRow(md, NameAtoms(safeFieldName))
  IN IF match # Null /\ match # ""
       THEN NormalizeCell(match)
       ELSE "Not Found"

(***************************************************************************)
(* formatDateForGitHub.  new Date("YYYY-MM-DD") reads the text as a UTC    *)
(* date; the time value is kept as a count of days since 1970-01-01.  What *)
(* the parser does with a day beyond the end of its month is left to the   *)
(* engine: V8 (Node.js) reads any day 01..31 and carries the excess into   *)
(* the next month, other engines answer Invalid Date.  Both are modelled.  *)
(***************************************************************************)
Engines == {"v8", "strict"}

NaN == -1000000000

\* ECMAScript DaysInYear / InLeapYear
InLeapYear(y) == (y % 4 = 0 /\ y % 100 # 0) \/ y % 400 = 0

\* ECMAScript MakeDay(year, month - 1, day): days from 1970-01-01 to the first
\* of the month, plus day - 1 (a day beyond the month's end runs into the next)
MakeDay(y, m, d) ==
  LET yy == IF m <= 2 THEN y - 1 ELSE y
      era == yy \div 400
      yoe == yy - era * 400
      mp == IF m > 2 THEN m - 3 ELSE m + 9
      doy == (153 * mp + 2) \div 5
      doe == yoe * 365 + yoe \div 4 - yoe \div 100 + doy
  IN era * 146097 + doe - 719468 + (d - 1)

\* ECMAScript YearFromTime, MonthFromTime + 1 and DateFromTime of a day count:
\* getUTCFullYear(), getUTCMonth() + 1, getUTCDate()
UTCFields(day) ==
  LET z == day + 719468
      era == z \div 146097
      doe == z - era * 146097
      yoe == (doe - doe \div 1460 + doe \div 36524 - doe \div 146096) \div 365
      doy == doe - (365 * yoe + yoe \div 4 - yoe \div 100)
      mp == (5 * doy + 2) \div 153
      m == IF mp < 10 THEN mp + 3 ELSE mp - 9
  IN [year |-> yoe + era * 400 + (IF m <= 2 THEN 1 ELSE 0),
      month |-> m,
      date |-> doy - (153 * mp + 2) \div 5 + 1]

\* the strict parser's table of month lengths
MonthLength(y, m) ==
  IF m = 2 THEN (IF InLeapYear(y) THEN 29 ELSE 28)
  ELSE IF m \in {4, 6, 9, 11} THEN 30 ELSE 31

\* new Date(dateStr).getTime() for a text of the form dddd-dd-dd, in days
DateParse(dateStr, eng) ==
  LET y == ToNumber(SubSeq(dateStr, 1, 4))
      m == ToNumber(SubSeq(dateStr, 6, 7))
      d == ToNumber(SubSeq(dateStr, 9, 10))
  IN IF m < 1 \/ m > 12 \/ d < 1 \/ d > 31 THEN NaN
     ELSE IF eng = "strict" /\ d > MonthLength(y, m) THEN NaN
     ELSE MakeDay(y, m, d)

\* whether /\d{4}-\d{2}-\d{2}/ matches at position i
DatePatternAt(s, i) ==
  /\ i + 9 <= Len(s)
  /\ \A k \in {0, 1, 2, 3, 5, 6, 8, 9} : IsDigit(At(s, i + k))
  /\ At(s, i + 4) = "-"
  /\ At(s, i + 7) = "-"

\* dateString.match(/(\d{4}-\d{2}-\d{2})/): match[1] of the leftmost match, or Null
DateMatch(s) ==
  LET hits == {i \in 1..Len(s) : DatePatternAt(s, i)}
  IN IF hits = {} THEN Null
     ELSE LET i == CHOOSE k \in hits : \A j \in hits : k <= j
          IN SubSeq(s, i, i + 9)

\* a variant without the comparison of lines 72-79
formatDateUnverified(ds, eng) ==
  IF Falsy(ds) \/ ds = "Not Found" \/ ds = "Not Specified" THEN Null
  ELSE LET dateStr == DateMatch(ds)
       IN IF dateStr = Null THEN Null
          ELSE IF DateParse(dateStr, eng) = NaN THEN Null
          ELSE dateStr

\* a variant that returns the whole text when its first date is a real one
formatDateWhole(ds, eng) ==
  IF formatDateUnverified(ds, eng) = Null THEN Null
  ELSE IF UTCFields(DateParse(DateMatch(ds), eng)).date # ToNumber(SubSeq(DateMatch(ds), 9, 10))
    THEN Null
  ELSE ds

formatDateForGitHub(ds, eng) ==
  IF Falsy(ds) \/ ds = "Not Found" \/ ds = "Not Specified" THEN Null
  ELSE LET dateStr == DateMatch(ds)
       IN IF dateStr = Null THEN Null
          ELSE LET date == DateParse(dateStr, eng)
               IN IF date = NaN THEN Null
                  ELSE LET utc == UTCFields(date)
                       IN IF \/ utc.year # ToNumber(SubSeq(dateStr, 1, 4))
                             \/ utc.month # ToNumber(SubSeq(dateStr, 6, 7))
                             \/ utc.date # ToNumber(SubSeq(dateStr, 9, 10))
                            THEN Null
                            ELSE dateStr

\* /^\d{4}-\d{2}-\d{2}$/.test(value)
IsStrictDate(value) == Len(value) = 10 /\ DatePatternAt(value, 1)

\* lines 200-234, up to the mutation: the update returns without a mutation
\* (no field id, no value), refuses the value's format, or sends the mutation
updateProjectDateField(fieldId, value) ==
  IF Falsy(fieldId) THEN "skipped"
  ELSE IF Falsy(value) THEN "skipped"
  ELSE IF ~IsStrictDate(value) THEN "refused"
  ELSE "sent"

(***************************************************************************)
(* Rendering of a Markdown table: the text a document export returns is    *)
(* made of rows "|label|value|", one per line.                             *)
(***************************************************************************)
RECURSIVE RenderRows(_)
RenderRows(rs) ==
  IF rs = <<>> THEN ""
  ELSE "|" \o Head(rs).label \o "|" \o Head(rs).value \o "|\n" \o RenderRows(Tail(rs))

Row(l, v) == [label |-> l, value |-> v]

(***************************************************************************)
(* Inputs of a run: the event payload, the environment, the exported       *)
(* document, the template file and the board's schema.                     *)
(***************************************************************************)
\* issue.body of the event: absent, empty, without a link, with links
Bodies ==
  { Null,
    "",
    "Mail server incident, report to follow",
    "docs.google.com/document/d/",
    "see docs-google.com/document/d/ABC123",
    "Report: https://docs.google.com/document/d/ABC123/edit",
    "https://docs.google.com/document/d//x https://docs.google.com/document/d/a-_9 https://docs.google.com/document/d/B2" }

NoIssue == [present |-> FALSE]

IssueOf(body, login, assignees, labels) ==
  [present |-> TRUE, number |-> 42, title |-> "Mail server compromised",
   body |-> body, user |-> login, html_url |-> "https://github.com/acme/ops/issues/42",
   assignees |-> assignees, state |-> "open", updated_at |-> "2024-03-16T08:30:00Z",
   closed_at |-> Null, labels |-> labels]

Payloads ==
  { [issue |-> NoIssue, repository |-> [full_name |-> "acme/ops"]] }
  \cup { [issue |-> IssueOf(b, u, a, l), repository |-> [full_name |-> "acme/ops"]] :
           b \in Bodies, u \in {Null, "alice"},
           a \in {<<>>, <<[login |-> "bob"]>>, <<[login |-> "bob"], [login |-> "carol"]>>},
           l \in {<<>>, <<[name |-> "security"], [name |-> "p1"]>>} }

\* a variable of process.env the code has not read yet
Unread == "<unread>"

EnvNames == {"GCP_CLIENT_ID", "GCP_CLIENT_SECRET", "GCP_REFRESH_TOKEN",
             "TARGET_OWNER", "TARGET_REPO", "PROJECT_ACCESS_TOKEN", "PROJECT_NUMBER"}

\* a secret of the document export: unset, empty, blank, or set
SecretValues == {Null, "", "  ", "secret"}

\* TARGET_OWNER, TARGET_REPO, PROJECT_ACCESS_TOKEN: unset, empty, or set
OwnerValues == {Null, "", "acme"}
RepoValues == {Null, "", "central"}
TokenValues == {Null, "", "ghp_token"}

\* PROJECT_NUMBER: unset, empty, or set
ProjectNumbers == {Null, "", "7"}

\* the Markdown texts the export can return
FullReportRows ==
  << Row(" **Incident type** ", " Phishing "),
     Row(" **Incident reported on** ", " 2024-03-15 "),
     Row(" **Incident closed on** ", " 2024-03-16 10:00 "),
     Row(" **Reporter** ", " alice "),
     Row(" **Incident Overview** ", " Mailbox takeover "),
     Row(" **Customer(s) Impacted** ", " ACME "),
     Row(" **Priority** ", " P1 "),
     Row(" **Coordinator** ", " bob "),
     Row(" **Incident owning team (Custodi an)** ", " SecOps "),
     Row(" **Affected system(s)** ", " Mail ") >>

FullReport == RenderRows(FullReportRows)

PartialReportRows ==
  << Row(" __incident type__ ", " SELECT "),
     Row(" Incident reported on ", " 2024-02-30 "),
     Row(" Incident closed on ", " N/A "),
     Row(" Reporter ", "   "),
     Row(" Customers Impacted ", " ACME "),
     Row(" Priority ", " P2 ") >>

PartialReport == RenderRows(PartialReportRows)

\* a report that names a field in the value cell of the row above it
ShiftedReportRows ==
  << Row(" Incident Overview ", " Priority "),
     Row(" Priority ", " P1 ") >>

ShiftedReport == RenderRows(ShiftedReportRows)

ReportRows == {FullReportRows, PartialReportRows, ShiftedReportRows}

Reports == {FullReport, PartialReport, ShiftedReport, "not a table"}

\* the template file: text with {{TOKEN}} placeholders
Templates == {"INC {{INCIDENT_NUMBER}} [{{PRIORITY}}] {{DOC_DESCRIPTION}} by @{{AUTHOR}} {{OTHER}} {{AUTHOR}}"}

\* a node of projectV2.fields.nodes
Field(name, type) == [id |-> "F:" \o name, name |-> name, dataType |-> type]

TextFieldNames ==
  << "Incident #", "Incident Type", "Reported By", "Description",
     "Impacted WSO2 BU or Customer", "Category/Rating/Priority",
     "Assignment Group/Team", "Last Updated By", "Assignment To",
     "Service/Product/Scope/system/Tool", "Attachment options for incident report" >>

DateFieldNames == << "Opened Date", "Closed date", "Last Updated" >>

FullBoard ==
  [i \in 1..Len(TextFieldNames) |-> Field(TextFieldNames[i], "TEXT")]
  \o [i \in 1..Len(DateFieldNames) |-> Field(DateFieldNames[i], "DATE")]

\* a board whose priority field is a single-select and whose opened date is text
RetypedBoard ==
  [i \in DOMAIN FullBoard |->
     IF FullBoard[i].name = "Category/Rating/Priority"
       THEN Field(FullBoard[i].name, "SINGLE_SELECT")
     ELSE IF FullBoard[i].name = "Opened Date" THEN Field(FullBoard[i].name, "TEXT")
     ELSE FullBoard[i]]

\* the boards a schema query can describe: every field, some fields of another
\* type, all but the priority field, the date fields alone, no field at all
Boards ==
  { FullBoard,
    RetypedBoard,
    SelectSeq(FullBoard, LAMBDA f : f.name # "Category/Rating/Priority"),
    SelectSeq(FullBoard, LAMBDA f : f.dataType = "DATE"),
    <<>> }

(***************************************************************************)
(* The synchronous parts of module.exports                                 *)
(***************************************************************************)
NoData == [number |-> 0]

parseIssueData(p) ==
  [number |-> p.issue.number,
   title |-> p.issue.title,
   description |-> OrEmpty(p.issue.body),
   author |-> p.issue.user,
   url |-> p.issue.html_url,
   assignees |-> [i \in DOMAIN p.issue.assignees |-> p.issue.assignees[i].login],
   state |-> p.issue.state,
   updatedAt |-> p.issue.updated_at,
   closedAt |-> p.issue.closed_at,
   repoName |-> p.repository.full_name,
   labels |-> [i \in DOMAIN p.issue.labels |-> p.issue.labels[i].name]]

\* Number.prototype.toString of a natural number
RECURSIVE NumberToString(_)
NumberToString(n) ==
  IF n < 10 THEN At(Digits, n + 1)
  ELSE NumberToString(n \div 10) \o At(Digits, (n % 10) + 1)

DocUrl(id) == "https://docs.google.com/document/d/" \o id

NoDetails == [incidentNumber |-> Null]

\* lines 272-294
IncidentDetails(d, text, docUrl) ==
  [incidentNumber |-> "INC-" \o NumberToString(d.number),
   incidentType |-> extractMarkdownField(text, "Incident type"),
   openedDate |-> extractMarkdownField(text, "Incident reported on"),
   lastUpdated |-> d.updatedAt,
   lastUpdatedBy |-> d.author,
   closedDate |-> extractMarkdownField(text, "Incident closed on"),
   reportedBy |-> extractMarkdownField(text, "Reporter"),
   description |-> extractMarkdownField(text, "Incident Overview"),
   impactedCustomerOrBU |-> extractMarkdownField(text, "Customer(s) Impacted"),
   state |-> d.state,
   priority |-> extractMarkdownField(text, "Priority"),
   assignmentTo |-> extractMarkdownField(text, "Coordinator"),
   assignmentGroup |-> extractMarkdownField(text, "Incident owning team (Custodi an)"),
   affectedSystem |-> extractMarkdownField(text, "Affected system(s)"),
   attachmentOptions |-> docUrl]

\* lines 317-338: the entries of replacements, in insertion order
Replacements(d, det) ==
  << <<"{{DESCRIPTION}}", d.description>>,
     <<"{{INCIDENT_NUMBER}}", det.incidentNumber>>,
     <<"{{INCIDENT_TYPE}}", det.incidentType>>,
     <<"{{OPENED_DATE}}", det.openedDate>>,
     <<"{{LAST_UPDATED}}", det.lastUpdated>>,
     <<"{{LAST_UPDATED_BY}}", OrEmpty(det.lastUpdatedBy)>>,
     <<"{{CLOSED_DATE}}", det.closedDate>>,
     <<"{{REPORTED_BY}}", det.reportedBy>>,
     <<"{{DOC_DESCRIPTION}}", det.description>>,
     <<"{{PRIORITY}}", det.priority>>,
     <<"{{STATE}}", det.state>>,
     <<"{{IMPACTED_BU}}", det.impactedCustomerOrBU>>,
     <<"{{AFFECTED_SYSTEM}}", det.affectedSystem>>,
     <<"{{ASSIGNMENT_GROUP}}", det.assignmentGroup>>,
     <<"{{ASSIGNMENT_TO}}", det.assignmentTo>>,
     <<"{{ATTACHMENT_OPTIONS}}", det.attachmentOptions>>,
     <<"{{REPO_NAME}}", d.repoName>>,
     <<"{{ISSUE_NUMBER}}", NumberToString(d.number)>>,
     <<"{{ISSUE_URL}}", d.url>>,
     <<"{{AUTHOR}}", IF Falsy(d.author) THEN "Unknown" ELSE d.author>> >>

\* a variant that replaces the first occurrence only, as body.replace(placeholder, ...)
SplitJoinFirst(body, placeholder, value) ==
  LET hits == {i \in 1..Len(body) : StartsWithAt(body, i, placeholder)}
  IN IF hits = {} THEN body
     ELSE LET i == CHOOSE k \in hits : \A j \in hits : k <= j
          IN SubSeq(body, 1, i - 1) \o value \o From(body, i + Len(placeholder))

\* a variant that finds the placeholder in any case
RECURSIVE SplitJoinIgnoreCase(_, _, _)
SplitJoinIgnoreCase(body, placeholder, value) ==
  LET n == Len(placeholder)
      hits == {i \in 1..(Len(body) - n + 1) :
                 \A k \in 1..n : LowerChar(At(body, i + k - 1)) = LowerChar(At(placeholder, k))}
  IN IF hits = {} THEN body
     ELSE LET i == CHOOSE k \in hits : \A j \in hits : k <= j
          IN SubSeq(body, 1, i - 1) \o value
             \o SplitJoinIgnoreCase(From(body, i + n), placeholder, value)

\* body.split(placeholder).join(value)
RECURSIVE SplitJoin(_, _, _)
SplitJoin(body, placeholder, value) ==
  LET hits == {i \in 1..Len(body) : StartsWithAt(body, i, placeholder)}
  IN IF hits = {} THEN body
     ELSE LET i == CHOOSE k \in hits : \A j \in hits : k <= j
          IN SubSeq(body, 1, i - 1) \o value
             \o SplitJoin(From(body, i + Len(placeholder)), placeholder, value)

\* lines 340-342: the loop over Object.entries(replacements)
RECURSIVE Render(_, _)
Render(body, entries) ==
  IF entries = <<>> THEN body
  ELSE Render(SplitJoin(body, Head(entries)[1], Head(entries)[2]), Tail(entries))

\* the check of the three secrets without their trim
GcpSecretsUntrimmed(id, secret, token) ==
  OrEmpty(id) = "" \/ OrEmpty(secret) = "" \/ OrEmpty(token) = ""

\* line 95: !clientId || !clientSecret || !refreshToken, each (value || "").trim()
GcpSecretsMissing(id, secret, token) ==
  \/ Trim(OrEmpty(id)) = ""
  \/ Trim(OrEmpty(secret)) = ""
  \/ Trim(OrEmpty(token)) = ""

\* line 349: !targetOwner || !targetRepo || !projectToken
TargetConfigMissing(owner, repo, token) == Falsy(owner) \/ Falsy(repo) \/ Falsy(token)

\* a variant that puts the marker label first
CreateArgsMarkerFirst(d, body, owner, repo) ==
  [owner |-> owner, repo |-> repo, title |-> d.title, body |-> body,
   labels |-> <<"mirrored-incident">> \o d.labels,
   assignees |-> IF Len(d.assignees) > 0 THEN d.assignees ELSE <<>>,
   hasAssignees |-> Len(d.assignees) > 0]

\* lines 364-371: the arguments of issues.create
CreateArgs(d, body, owner, repo) ==
  [owner |-> owner, repo |-> repo, title |-> d.title, body |-> body,
   labels |-> d.labels \o <<"mirrored-incident">>,
   assignees |-> IF Len(d.assignees) > 0 THEN d.assignees ELSE <<>>,
   hasAssignees |-> Len(d.assignees) > 0]

NoNewIssue == [node_id |-> Null, html_url |-> Null]

CreatedIssue(owner, repo) ==
  [node_id |-> "I_1", html_url |-> "https://github.com/" \o owner \o "/" \o repo \o "/issues/1"]

NoProject == [id |-> Null, fields |-> <<>>, itemId |-> Null]

\* line 399: fields.find(field => field.name === name)?.id
getFieldId(fields, name) ==
  LET found == SelectSeq(fields, LAMBDA f : f.name = name)
  IN IF found = <<>> THEN Null ELSE Head(found).id

\* lines 402-506: the field updates in the order they are awaited
FieldUpdates ==
  << [kind |-> "text", field |-> "Incident #", key |-> "incidentNumber"],
     [kind |-> "text", field |-> "Incident Type", key |-> "incidentType"],
     [kind |-> "text", field |-> "Reported By", key |-> "reportedBy"],
     [kind |-> "text", field |-> "Description", key |-> "description"],
     [kind |-> "text", field |-> "Impacted WSO2 BU or Customer", key |-> "impactedCustomerOrBU"],
     [kind |-> "text", field |-> "Category/Rating/Priority", key |-> "priority"],
     [kind |-> "text", field |-> "Assignment Group/Team", key |-> "assignmentGroup"],
     [kind |-> "text", field |-> "Last Updated By", key |-> "lastUpdatedBy"],
     [kind |-> "text", field |-> "Assignment To", key |-> "assignmentTo"],
     [kind |-> "text", field |-> "Service/Product/Scope/system/Tool", key |-> "affectedSystem"],
     [kind |-> "text", field |-> "Attachment options for incident report", key |-> "attachmentOptions"],
     [kind |-> "date", field |-> "Opened Date", key |-> "openedDate"],
     [kind |-> "date", field |-> "Closed date", key |-> "closedDate"],
     [kind |-> "date", field |-> "Last Updated", key |-> "lastUpdated"] >>

\* the value argument of the i-th field update
UpdateValue(i, det, eng) ==
  IF FieldUpdates[i].kind = "date"
    THEN formatDateForGitHub(det[FieldUpdates[i].key], eng)
    ELSE OrEmpty(det[FieldUpdates[i].key])

\* a variant of the text update's guard that looks at the field id only
TextMutationSentAnyValue(fieldId, value) == ~Falsy(fieldId)

\* line 176: updateProjectTextField goes on to its mutation
TextMutationSent(fieldId, value) ==
  ~(Falsy(fieldId) \/ Falsy(value) \/ value = "Not Found" \/ value = "Not Specified")

\* lines 200-214: updateProjectDateField goes on to its mutation
DateMutationSent(fieldId, value) ==
  ~Falsy(fieldId) /\ ~Falsy(value) /\ IsStrictDate(value)

MutationSent(i, fields, det, eng) ==
  IF FieldUpdates[i].kind = "date"
    THEN DateMutationSent(getFieldId(fields, FieldUpdates[i].field), UpdateValue(i, det, eng))
    ELSE TextMutationSent(getFieldId(fields, FieldUpdates[i].field), UpdateValue(i, det, eng))

\* a variant in which a field missing from the board ends the updates
RECURSIVE NextMutationStopAtMissing(_, _, _, _)
NextMutationStopAtMissing(i, fields, det, eng) ==
  IF i > Len(FieldUpdates) THEN i
  ELSE IF getFieldId(fields, FieldUpdates[i].field) = Null THEN Len(FieldUpdates) + 1
  ELSE IF MutationSent(i, fields, det, eng) THEN i
  ELSE NextMutationStopAtMissing(i + 1, fields, det, eng)

\* the first field update from the i-th on that sends a mutation, or
\* Len(FieldUpdates) + 1 when the remaining ones all return without one
RECURSIVE NextMutation(_, _, _, _)
NextMutation(i, fields, det, eng) ==
  IF i > Len(FieldUpdates) THEN i
  ELSE IF MutationSent(i, fields, det, eng) THEN i
  ELSE NextMutation(i + 1, fields, det, eng)

(***************************************************************************)
(* A run of module.exports.  Every network call is awaited: the run issues *)
(* the call (it is appended to calls), is suspended at it (pc names it),   *)
(* and is resumed by the action that models the call's return, which runs  *)
(* the code up to the next call.  The message of an upstream error names   *)
(* the call it comes from.                                                 *)
(***************************************************************************)
Call(op, args) == [op |-> op, args |-> args]

\* what no step of a run changes: its inputs, the variables of the helpers
\* under test, and the outputs, which the code never sets
inputVars == <<payload, engine, extractVars, dateVars, outputs>>

\* lines 523-525: the outer catch
SetFailed(message) ==
  /\ failed' = "Sync Failed: " \o message
  /\ pc' = "done"

\* lines 516-522: the comment on the original issue is requested
RequestComment ==
  /\ calls' = Append(calls, Call("issues.createComment",
        [issue_number |-> data.number,
         body |-> "**Incident Mirrored Successfully**\nA mirrored ticket containing the parsed document data has been created in the centralized repository: "
                  \o newIssue.html_url]))
  /\ pc' = "createComment"

\* a variant of the missing link's branch that throws instead of warning
NoDocLinkThrown ==
  /\ SetFailed("No Google Doc link found in description.")
  /\ UNCHANGED <<warnings, calls, env, notices, docId>>

\* lines 257-260: no link in the description
NoDocLink ==
  /\ warnings' = Append(warnings, "No Google Doc link found in description. Exiting.")
  /\ pc' = "done"
  /\ UNCHANGED <<failed, calls, env, notices, docId>>

\* lines 262-269 and 92-106: the link is reported and the export requested,
\* unless one of the three secrets is missing
FetchGoogleDoc(id) ==
  /\ docId' = id
  /\ notices' = Append(notices, "Security Incident Report Found: " \o DocUrl(id))
  /\ \E clientId \in SecretValues, clientSecret \in SecretValues, refreshToken \in SecretValues :
       /\ env' = [env EXCEPT !["GCP_CLIENT_ID"] = clientId,
                             !["GCP_CLIENT_SECRET"] = clientSecret,
                             !["GCP_REFRESH_TOKEN"] = refreshToken]
       /\ IF GcpSecretsMissing(clientId, clientSecret, refreshToken)
            THEN SetFailed("Missing GCP Secrets.") /\ calls' = calls
            ELSE /\ calls' = Append(calls, Call("drive.files.export",
                                                [fileId |-> id, mimeType |-> "text/markdown"]))
                 /\ pc' = "export"
                 /\ failed' = failed
  /\ warnings' = warnings

\* lines 249-269: from the start of the run to its first await
Main ==
  /\ pc = "start"
  /\ IF ~payload.issue.present
       THEN /\ SetFailed("No issue payload found.")
            /\ UNCHANGED <<data, warnings, calls, env, notices, docId>>
       ELSE /\ data' = parseIssueData(payload)
            /\ IF GoogleDocMatch(parseIssueData(payload).description) = Null
                 THEN NoDocLink
                 ELSE FetchGoogleDoc(GoogleDocMatch(parseIssueData(payload).description))
  /\ UNCHANGED <<markdownText, incidentDetails, newIssue, projectData, fieldIdx, comments>>
  /\ UNCHANGED inputVars
  /\ UNCHANGED renderVars

\* a variant of the export's catch that requests the export again
ExportRetried ==
  /\ calls' = Append(calls, calls[Len(calls)])
  /\ pc' = "export"
  /\ UNCHANGED <<failed, markdownText, incidentDetails, env>>
  /\ UNCHANGED renderVars

\* lines 109-118 and 523-525: the export rejects, the error is logged and rethrown
ExportRejected ==
  /\ SetFailed("drive.files.export: 403")
  /\ UNCHANGED <<markdownText, incidentDetails, env, calls>>
  /\ UNCHANGED renderVars

\* lines 107-108 and 271-371: the export resolves with text; the fields are
\* extracted, the template is read and filled in, and the mirror issue is
\* requested, unless the template cannot be read or the target is not configured
ExportResolved(text, file) ==
  /\ markdownText' = text
  /\ incidentDetails' = IncidentDetails(data, text, DocUrl(docId))
  /\ template' = file
  /\ templateParts' = templateParts
  /\ IF file = Null
       THEN /\ SetFailed("ENOENT: no such file or directory")
            /\ UNCHANGED <<env, calls, replacements, mirroredIssueBody>>
       ELSE /\ replacements' = Replacements(data, incidentDetails')
            /\ mirroredIssueBody' = Render(file, replacements')
            /\ \E targetOwner \in OwnerValues, targetRepo \in RepoValues,
                  projectToken \in TokenValues :
                 /\ env' = [env EXCEPT !["TARGET_OWNER"] = targetOwner,
                                       !["TARGET_REPO"] = targetRepo,
                                       !["PROJECT_ACCESS_TOKEN"] = projectToken]
                 /\ IF TargetConfigMissing(targetOwner, targetRepo, projectToken)
                      THEN /\ SetFailed("Missing TARGET_OWNER, TARGET_REPO, or PROJECT_ACCESS_TOKEN in env.")
                           /\ calls' = calls
                      ELSE /\ calls' = Append(calls, Call("issues.create",
                                 CreateArgs(data, mirroredIssueBody', targetOwner, targetRepo)))
                           /\ pc' = "create"
                           /\ failed' = failed

ExportReturn ==
  /\ pc = "export"
  /\ \/ ExportRejected
     \/ \E text \in Reports, file \in Templates \cup {Null} : ExportResolved(text, file)
  /\ UNCHANGED <<warnings, notices, data, newIssue, projectData, fieldIdx, comments, docId>>
  /\ UNCHANGED inputVars

\* issues.create rejects: the outer catch
\* a variant that goes on to the Project board after a rejected creation
CreateRejectedIgnored ==
  /\ calls' = Append(calls, Call("getProjectData",
                         [login |-> env["TARGET_OWNER"], number |-> "7"]))
  /\ pc' = "getProjectData"
  /\ failed' = failed
  /\ UNCHANGED <<newIssue, notices, env>>

CreateRejected ==
  /\ SetFailed("issues.create: 422")
  /\ UNCHANGED <<newIssue, notices, env, calls>>

\* lines 373-389: the mirror issue exists; PROJECT_NUMBER is read and the
\* board's schema requested
CreateResolved ==
  /\ newIssue' = CreatedIssue(env["TARGET_OWNER"], env["TARGET_REPO"])
  /\ notices' = Append(notices, "Mirrored issue created: "
                         \o CreatedIssue(env["TARGET_OWNER"], env["TARGET_REPO"]).html_url)
  /\ \E projectNumber \in ProjectNumbers :
       /\ env' = [env EXCEPT !["PROJECT_NUMBER"] = projectNumber]
       /\ IF Falsy(projectNumber)
            THEN /\ SetFailed("Missing PROJECT_NUMBER in environment variables.")
                 /\ calls' = calls
            ELSE /\ calls' = Append(calls, Call("getProjectData",
                                   [login |-> env["TARGET_OWNER"], number |-> projectNumber]))
                 /\ pc' = "getProjectData"
                 /\ failed' = failed

CreateReturn ==
  /\ pc = "create"
  /\ (CreateRejected \/ CreateResolved)
  /\ UNCHANGED <<warnings, data, markdownText, incidentDetails, projectData, fieldIdx,
                 comments, docId>>
  /\ UNCHANGED inputVars
  /\ UNCHANGED renderVars

\* a variant of the sync's catch that rethrows to the outer catch
ProjectSyncRethrown(message) ==
  /\ SetFailed(message)
  /\ UNCHANGED <<warnings, calls>>

\* a variant of the sync's catch that warns and ends the run there
ProjectSyncFailedNoComment(message) ==
  /\ warnings' = Append(warnings, "Issue created, but failed to sync to Project: " \o message)
  /\ failed' = failed
  /\ calls' = calls
  /\ pc' = "done"

\* lines 510-522: the catch of the Project sync warns, and the run goes on to
\* the comment
ProjectSyncFailed(message) ==
  /\ warnings' = Append(warnings, "Issue created, but failed to sync to Project: " \o message)
  /\ failed' = failed
  /\ RequestComment

\* a variant that sends the mutations in the reverse of the listed order
MutationReversed(i) ==
  Call(IF FieldUpdates[Len(FieldUpdates) + 1 - i].kind = "date"
         THEN "updateProjectDateField" ELSE "updateProjectTextField",
       [fieldName |-> FieldUpdates[Len(FieldUpdates) + 1 - i].field,
        fieldId |-> getFieldId(projectData.fields, FieldUpdates[Len(FieldUpdates) + 1 - i].field),
        value |-> UpdateValue(Len(FieldUpdates) + 1 - i, incidentDetails, engine)])

\* the mutation of the i-th field update
Mutation(i) ==
  Call(IF FieldUpdates[i].kind = "date" THEN "updateProjectDateField"
                                        ELSE "updateProjectTextField",
       [fieldName |-> FieldUpdates[i].field,
        fieldId |-> getFieldId(projectData.fields, FieldUpdates[i].field),
        value |-> UpdateValue(i, incidentDetails, engine)])

\* lines 402-522 from the i-th field update on: the updates that send no
\* mutation return at once; the first that sends one suspends the run; after
\* the last the sync is reported and the comment requested
ContinueUpdates(i) ==
  IF NextMutation(i, projectData.fields, incidentDetails, engine) <= Len(FieldUpdates)
    THEN /\ fieldIdx' = NextMutation(i, projectData.fields, incidentDetails, engine)
         /\ calls' = Append(calls,
               Mutation(NextMutation(i, projectData.fields, incidentDetails, engine)))
         /\ pc' = "updateField"
         /\ UNCHANGED <<notices, warnings, failed>>
    ELSE /\ notices' = Append(notices, "Successfully synced data to Project V2!")
         /\ RequestComment
         /\ UNCHANGED <<fieldIdx, warnings, failed>>

\* lines 385-396: the schema query returns.  It rejects, or resolves without a
\* project (result.user or projectV2 is null: a TypeError inside the try), or
\* resolves with the board, and the issue's attachment is requested
SchemaReturn ==
  /\ pc = "getProjectData"
  /\ \/ /\ \E message \in {"getProjectData: 502", "Cannot read properties of null"} :
             ProjectSyncFailed(message)
        /\ UNCHANGED <<projectData, notices, fieldIdx>>
     \/ \E board \in Boards :
          /\ projectData' = [id |-> "PVT_1", fields |-> board, itemId |-> Null]
          /\ calls' = Append(calls, Call("addIssueToProject",
                                [projectId |-> "PVT_1", contentId |-> newIssue.node_id]))
          /\ pc' = "addIssueToProject"
          /\ UNCHANGED <<warnings, notices, failed, fieldIdx>>
  /\ UNCHANGED <<env, data, markdownText, incidentDetails, newIssue, comments, docId>>
  /\ UNCHANGED inputVars
  /\ UNCHANGED renderVars

\* lines 392-409: the attachment returns; on success the field updates begin
AttachReturn ==
  /\ pc = "addIssueToProject"
  /\ \/ /\ ProjectSyncFailed("addIssueToProject: 502")
        /\ UNCHANGED <<projectData, notices, fieldIdx>>
     \/ /\ projectData' = [projectData EXCEPT !.itemId = "PVTI_1"]
        /\ ContinueUpdates(1)
  /\ UNCHANGED <<env, data, markdownText, incidentDetails, newIssue, comments, docId>>
  /\ UNCHANGED inputVars
  /\ UNCHANGED renderVars

\* lines 188, 227-234: a field mutation returns; on success the updates go on
UpdateReturn ==
  /\ pc = "updateField"
  /\ \/ /\ ProjectSyncFailed("updateProjectV2ItemFieldValue: 502")
        /\ UNCHANGED <<notices, fieldIdx>>
     \/ ContinueUpdates(fieldIdx + 1)
  /\ UNCHANGED <<env, data, markdownText, incidentDetails, newIssue, projectData,
                 comments, docId>>
  /\ UNCHANGED inputVars
  /\ UNCHANGED renderVars

\* lines 517-525: the comment call returns
CommentReturn ==
  /\ pc = "createComment"
  /\ \/ /\ SetFailed("issues.createComment: 403")
        /\ UNCHANGED comments
     \/ /\ comments' = Append(comments, calls[Len(calls)].args.body)
        /\ pc' = "done"
        /\ failed' = failed
  /\ UNCHANGED <<env, calls, warnings, notices, data, markdownText, incidentDetails,
                 newIssue, projectData, fieldIdx, docId>>
  /\ UNCHANGED inputVars
  /\ UNCHANGED renderVars

\* the result of a helper that has not been called yet
Pending == "<pending>"

NoParts == [kind |-> "none"]

\* the template has not been read
NoRender ==
  /\ templateParts = <<>>
  /\ template = Null
  /\ replacements = <<>>
  /\ mirroredIssueBody = Pending

Init ==
  /\ pc = "start"
  /\ payload \in Payloads
  /\ engine \in Engines
  /\ env = [n \in EnvNames |-> Unread]
  /\ calls = <<>>
  /\ failed = Null
  /\ warnings = <<>>
  /\ notices = <<>>
  /\ data = NoData
  /\ docId = Null
  /\ markdownText = Null
  /\ incidentDetails = NoDetails
  /\ newIssue = NoNewIssue
  /\ projectData = NoProject
  /\ fieldIdx = 0
  /\ comments = <<>>
  /\ outputs = <<>>
  /\ rows = <<>>
  /\ markdown = ""
  /\ fieldName = Null
  /\ extracted = Pending
  /\ dateParts = NoParts
  /\ dateString = Null
  /\ formatted = Pending
  /\ dateUpdate = Pending
  /\ NoRender

Next ==
  \/ Main
  \/ ExportReturn
  \/ CreateReturn
  \/ SchemaReturn
  \/ AttachReturn
  \/ UpdateReturn
  \/ CommentReturn

Spec == Init /\ [][Next]_vars

(***************************************************************************)
(* extractMarkdownField on its own: a table of up to MaxRows rows and a    *)
(* field name are chosen, then the function is applied.                    *)
(***************************************************************************)
MaxRows == 2

\* label cells: the names below plain, decorated, in another case, and others
LabelCells ==
  {"Priority", " **priority** ", "__PRIORITY__", "Customer(s) Impacted",
   "Customers Impacted", "**Owner**"}

\* value cells: values, placeholders, blank and empty cells, a field's name
ValueCells == {"", "  ", "N/A", " SELECT ", " P1 ", "select", " Priority "}

FieldNames == {"Priority", "Customer(s) Impacted"}

Tables ==
  UNION {[1..n -> {Row(l, v) : l \in LabelCells, v \in ValueCells}] : n \in 0..MaxRows}

NoRun ==
  /\ pc = "done"
  /\ payload = [issue |-> NoIssue, repository |-> [full_name |-> "acme/ops"]]
  /\ env = [n \in EnvNames |-> Unread]
  /\ calls = <<>>
  /\ failed = Null
  /\ warnings = <<>>
  /\ notices = <<>>
  /\ data = NoData
  /\ docId = Null
  /\ markdownText = Null
  /\ incidentDetails = NoDetails
  /\ newIssue = NoNewIssue
  /\ projectData = NoProject
  /\ fieldIdx = 0
  /\ comments = <<>>
  /\ outputs = <<>>

InitExtract ==
  /\ NoRun
  /\ engine = "v8"
  /\ rows \in Tables
  /\ markdown = RenderRows(rows)
  /\ fieldName \in FieldNames
  /\ extracted = Pending
  /\ dateParts = NoParts
  /\ dateString = Null
  /\ formatted = Pending
  /\ dateUpdate = Pending
  /\ NoRender

Extract ==
  /\ extracted = Pending
  /\ extracted' = extractMarkdownField(markdown, fieldName)
  /\ UNCHANGED <<runVars, engine, rows, markdown, fieldName, dateVars, renderVars, outputs>>

SpecExtract == InitExtract /\ [][Extract]_vars

(***************************************************************************)
(* formatDateForGitHub on its own: a text is chosen, then the function is  *)
(* applied.  A dated text is before \o yyyy-mm-dd \o after, with the month  *)
(* in 0..MaxMonth and the day in 0..MaxDay.                                *)
(***************************************************************************)
MaxMonth == 13
MaxDay == 32

Years == {1900, 2000, 2023, 2024}

\* a number below 100 as two digits
TwoDigits(n) == At(Digits, (n \div 10) + 1) \o At(Digits, (n % 10) + 1)

DatedParts ==
  {[kind |-> "dated", before |-> b, year |-> y, month |-> m, day |-> d, after |-> a] :
     b \in {"", "Incident reported on ", "1"}, y \in Years, m \in 0..MaxMonth,
     d \in 0..MaxDay, a \in {"", "7 2024-03-15"}}

PlainParts ==
  {[kind |-> "plain", text |-> t] :
     t \in {Null, "", "Not Found", "Not Specified", "yesterday", "2024-3-15",
            "15-03-2024", "2024/03/15", "20240315"}}

TextOf(parts) ==
  IF parts.kind = "plain" THEN parts.text
  ELSE parts.before \o NumberToString(parts.year) \o "-" \o TwoDigits(parts.month)
       \o "-" \o TwoDigits(parts.day) \o parts.after

InitDate ==
  /\ NoRun
  /\ engine \in Engines
  /\ rows = <<>>
  /\ markdown = ""
  /\ fieldName = Null
  /\ extracted = Pending
  /\ dateParts \in DatedParts \cup PlainParts
  /\ dateString = TextOf(dateParts)
  /\ formatted = Pending
  /\ dateUpdate = Pending
  /\ NoRender

FormatDate ==
  /\ formatted = Pending
  /\ formatted' = formatDateForGitHub(dateString, engine)
  /\ UNCHANGED <<runVars, engine, extractVars, dateParts, dateString, dateUpdate,
                 renderVars, outputs>>

\* lines 483-506: the result is handed to updateProjectDateField, for a field
\* the board has or lacks
UpdateDateField ==
  /\ formatted # Pending
  /\ dateUpdate = Pending
  /\ \E fieldId \in {Null, "F:Opened Date"} :
       dateUpdate' = updateProjectDateField(fieldId, formatted)
  /\ UNCHANGED <<runVars, engine, extractVars, dateParts, dateString, formatted,
                 renderVars, outputs>>

NextDate == FormatDate \/ UpdateDateField

SpecDate == InitDate /\ [][NextDate]_vars

(***************************************************************************)
(* The template renderer on its own: a template of up to MaxPieces pieces  *)
(* (or the template file of the repository) and the values of a run are    *)
(* chosen, then the replacement loop is applied.                           *)
(***************************************************************************)
MaxPieces == 2

\* .github/templates/incident-mirror.md, cut at its tokens
MirrorTemplateParts ==
  << "### Description\n\n", "{{DESCRIPTION}}",
     "\n\n## Security Incident Report\n\n| Field                     | Value                  |\n| ------------------------- | ---------------------- |\n| **Incident #**            | ",
     "{{INCIDENT_NUMBER}}", "    |\n| **Incident Type**         | ", "{{INCIDENT_TYPE}}",
     "      |\n| **Opened Date**           | ", "{{OPENED_DATE}}",
     "        |\n| **Last Updated**          | ", "{{LAST_UPDATED}}",
     "       |\n| **Last Updated By**       | ", "{{LAST_UPDATED_BY}}",
     "    |\n| **Closed Date**           | ", "{{CLOSED_DATE}}",
     "        |\n| **Reported By**           | ", "{{REPORTED_BY}}",
     "        |\n| **Description**           | ", "{{DOC_DESCRIPTION}}",
     "    |\n| **Priority**              | ", "{{PRIORITY}}",
     "           |\n| **State**                 | ", "{{STATE}}",
     "              |\n| **Impacted BU/Customer**  | ", "{{IMPACTED_BU}}",
     "        |\n| **Affected System**       | ", "{{AFFECTED_SYSTEM}}",
     "    |\n| **Assignment Group**      | ", "{{ASSIGNMENT_GROUP}}",
     "   |\n| **Assignment To**         | ", "{{ASSIGNMENT_TO}}",
     "      |\n| **Service/Product/Scope** | ", "{{ASSIGNMENT_TO}}",
     "      |\n| **Attachment options**    | ", "{{ATTACHMENT_OPTIONS}}",
     " |\n\n---\n\n**Original Issue:** [", "{{REPO_NAME}}", "#", "{{ISSUE_NUMBER}}", "](",
     "{{ISSUE_URL}}", ")\n**Original Author:** [@", "{{AUTHOR}}", "](https://github.com/",
     "{{AUTHOR}}", ")\n**Google Doc Report:** ", "{{ATTACHMENT_OPTIONS}}", "\n\n" >>

\* pieces of a template: text, tokens of the replacements object, other tokens
RenderPieces ==
  {"Priority: ", "{{DESCRIPTION}}", "{{DOC_DESCRIPTION}}", "{{PRIORITY}}", "{{AUTHOR}}",
   "{{OTHER}}", "{{priority}}"}

TemplatePartsSet ==
  UNION {[1..n -> RenderPieces] : n \in 0..MaxPieces} \cup {MirrorTemplateParts}

RECURSIVE Concat(_)
Concat(parts) == IF parts = <<>> THEN "" ELSE Head(parts) \o Concat(Tail(parts))

\* descriptions of the issue, and exported reports, some holding tokens
RenderBodies == {"", "Mail down", "see {{PRIORITY}}", "{{DESCRIPTION}} again"}

TokenReport ==
  RenderRows(<< Row(" Incident Overview ", " {{DESCRIPTION}} "),
                Row(" Priority ", " {{AUTHOR}} $& ") >>)

RenderReports == {FullReport, TokenReport, "not a table"}

\* the replacements objects of the runs with these descriptions and reports
ReplacementsSet ==
  {Replacements(parseIssueData([issue |-> IssueOf(b, u, <<>>, <<>>),
                                repository |-> [full_name |-> "acme/ops"]]),
                IncidentDetails(parseIssueData([issue |-> IssueOf(b, u, <<>>, <<>>),
                                                repository |-> [full_name |-> "acme/ops"]]),
                                text, DocUrl("ABC123"))) :
     b \in RenderBodies, u \in {Null, "alice"}, text \in RenderReports}

InitRender ==
  /\ NoRun
  /\ engine = "v8"
  /\ rows = <<>>
  /\ markdown = ""
  /\ fieldName = Null
  /\ extracted = Pending
  /\ dateParts = NoParts
  /\ dateString = Null
  /\ formatted = Pending
  /\ dateUpdate = Pending
  /\ templateParts \in TemplatePartsSet
  /\ template = Concat(templateParts)
  /\ replacements \in ReplacementsSet
  /\ mirroredIssueBody = Pending

RenderTemplate ==
  /\ mirroredIssueBody = Pending
  /\ mirroredIssueBody' = Render(template, replacements)
  /\ UNCHANGED <<runVars, engine, extractVars, dateVars, templateParts, template,
                 replacements, outputs>>

SpecRender == InitRender /\ [][RenderTemplate]_vars

(***************************************************************************)
(* Properties of the run (Spec).                                           *)
(***************************************************************************)
CallCount(op) == Cardinality({i \in DOMAIN calls : calls[i].op = op})

LastCallIs(op) == calls # <<>> /\ calls[Len(calls)].op = op

MirrorCreated == newIssue.node_id # Null

Failure(message) == "Sync Failed: " \o message

GcpNames == {"GCP_CLIENT_ID", "GCP_CLIENT_SECRET", "GCP_REFRESH_TOKEN"}

TargetNames == {"TARGET_OWNER", "TARGET_REPO", "PROJECT_ACCESS_TOKEN"}

\* the awaits of the Project sync
SyncAwaits == {"getProjectData", "addIssueToProject", "updateField"}

\* the calls of the mirror and Project sync phase
MirrorPhaseOps ==
  {"issues.create", "getProjectData", "addIssueToProject", "updateProjectTextField",
   "updateProjectDateField", "issues.createComment"}

\* C1: once the run is over, if the mirror issue was created then the
\* back-link comment on the original issue was requested exactly once,
\* however the Project sync went, not starting included.
C1_CommentWheneverMirrored ==
  (pc = "done" /\ MirrorCreated) => CallCount("issues.createComment") = 1

\* a step from an await of the Project sync leaves the run not failed
SyncStepOnlyWarns ==
  pc \in SyncAwaits =>
    /\ failed = Null /\ failed' = Null
    /\ \/ pc' \in SyncAwaits /\ warnings' = warnings
       \/ /\ pc' = "createComment"
          /\ \/ Len(warnings') = Len(warnings) + 1 /\ notices' = notices
             \/ Len(notices') = Len(notices) + 1 /\ warnings' = warnings

\* C2: a step that resumes the run from a call of the Project sync (the
\* schema query, the attachment, a text or date mutation) never marks the run
\* failed; it goes on with the sync, or it goes on to the back-link comment
\* after either reporting the sync or recording exactly one warning.
C2_SyncFailureOnlyWarns == [][SyncStepOnlyWarns]_vars

\* a date mutation was rejected, and the run ended with a warning, the
\* comment and no failure
C2_Witness ==
  /\ pc = "done" /\ failed = Null
  /\ Len(warnings) = 1 /\ Len(comments) = 1
  /\ Len(calls) >= 2 /\ calls[Len(calls) - 1].op = "updateProjectDateField"

\* C3: when the target owner, the target repository, the token or the Project
\* board number has been read and found missing, the run is over and failed,
\* and no call of the mirror and Project phase has been made: in particular no
\* mirror issue is created when the board number is missing.
C3_ConfigCheckedBeforeNetwork ==
  (\E n \in TargetNames \cup {"PROJECT_NUMBER"} : Falsy(env[n])) =>
     /\ pc = "done" /\ failed # Null
     /\ \A i \in DOMAIN calls : calls[i].op \notin MirrorPhaseOps
     /\ ~MirrorCreated

\* the description holds docs.google.com/document/d/ followed by an id character
HasDocLink(description) ==
  \E i \in 1..Len(description) :
    /\ i + Len(GoogleDocPrefix) <= Len(description)
    /\ SubSeq(description, i, i + Len(GoogleDocPrefix) - 1) = GoogleDocPrefix
    /\ \/ At(description, i + Len(GoogleDocPrefix)) \in {"-", "_"}
       \/ \E c \in 1..Len(LowerLetters) :
            At(description, i + Len(GoogleDocPrefix)) \in
              {At(LowerLetters, c), At(UpperLetters, c)}
       \/ \E c \in 1..Len(Digits) : At(description, i + Len(GoogleDocPrefix)) = At(Digits, c)

\* C4: when the issue's description holds no document link (a missing or
\* empty description included), the run ends at once with the one warning, no
\* call, no document read, and is not failed.
C4_NoLinkNoFetch ==
  (payload.issue.present /\ ~HasDocLink(OrEmpty(payload.issue.body)) /\ pc # "start") =>
     /\ pc = "done" /\ failed = Null
     /\ calls = <<>> /\ comments = <<>>
     /\ docId = Null /\ markdownText = Null
     /\ warnings = <<"No Google Doc link found in description. Exiting.">>

\* a description that names the document host with another character for a dot
C4_Witness ==
  /\ pc = "done" /\ payload.issue.present
  /\ OrEmpty(payload.issue.body) # ""
  /\ ~HasDocLink(OrEmpty(payload.issue.body))
  /\ Len(warnings) = 1 /\ calls = <<>>

\* unset, empty or made of whitespace only
IsBlank(v) == v = Null \/ \A i \in 1..Len(v) : At(v, i) \in {" ", "\t", "\n", "\r"}

\* C5: when one of the three Google credentials has been read and is unset,
\* empty or whitespace only, the run is over and failed with the
\* configuration error, and no call was made: no export, no mirror issue, no
\* comment.
C5_BlankSecretFailsBeforeNetwork ==
  (\E n \in GcpNames : IsBlank(env[n])) =>
     /\ pc = "done" /\ failed = Failure("Missing GCP Secrets.")
     /\ calls = <<>> /\ ~MirrorCreated /\ comments = <<>>
     /\ markdownText = Null

\* a link was found and only the refresh token is whitespace
C5_Witness ==
  /\ docId # Null
  /\ env["GCP_CLIENT_ID"] = "secret" /\ env["GCP_CLIENT_SECRET"] = "secret"
  /\ env["GCP_REFRESH_TOKEN"] = "  "
  /\ failed # Null

PayloadMissing == ~payload.issue.present /\ failed = Failure("No issue payload found.")

ConfigMissing ==
  \/ (\E n \in GcpNames : IsBlank(env[n])) /\ failed = Failure("Missing GCP Secrets.")
  \/ /\ \E n \in TargetNames : Falsy(env[n])
     /\ failed = Failure("Missing TARGET_OWNER, TARGET_REPO, or PROJECT_ACCESS_TOKEN in env.")
  \/ /\ Falsy(env["PROJECT_NUMBER"])
     /\ failed = Failure("Missing PROJECT_NUMBER in environment variables.")

FetchOrCreateRejected ==
  \/ LastCallIs("drive.files.export") /\ markdownText = Null
       /\ failed = Failure("drive.files.export: 403")
  \/ LastCallIs("issues.create") /\ ~MirrorCreated /\ failed = Failure("issues.create: 422")

TemplateUnreadable ==
  /\ LastCallIs("drive.files.export") /\ markdownText # Null
  /\ failed = Failure("ENOENT: no such file or directory")

CommentRejected ==
  /\ LastCallIs("issues.createComment") /\ comments = <<>>
  /\ failed = Failure("issues.createComment: 403")

\* C6 as stated: a failed run has one of the listed causes: the payload is
\* missing, a credential or configuration value is missing, or the document
\* fetch or the mirror issue's creation was rejected upstream.
C6_OnlyListedCauses ==
  failed # Null => (PayloadMissing \/ ConfigMissing \/ FetchOrCreateRejected)

\* C6 amended: a failed run has one of the listed causes, or the template
\* could not be read, or the back-link comment call was rejected; a failure of
\* the Project sync is never one of them.
C6_OnlyTheseCauses ==
  failed # Null =>
    \/ PayloadMissing \/ ConfigMissing \/ FetchOrCreateRejected
    \/ TemplateUnreadable \/ CommentRejected

\* the comment call was rejected after the mirror issue was created
C6_Witness == CommentRejected /\ MirrorCreated /\ pc = "done"

\* C7: the export is requested at most once; once it has returned without a
\* document, the run is over and failed, and the export is the only call made:
\* no mirror issue, no Project call, no comment.
C7_ExportOnceAndFatal ==
  /\ CallCount("drive.files.export") <= 1
  /\ (CallCount("drive.files.export") >= 1 /\ pc # "export" /\ markdownText = Null) =>
       /\ pc = "done" /\ failed # Null
       /\ Len(calls) = 1 /\ ~MirrorCreated /\ comments = <<>>

\* the export was rejected
C7_Witness ==
  /\ pc = "done" /\ LastCallIs("drive.files.export") /\ markdownText = Null
  /\ failed = Failure("drive.files.export: 403")

(***************************************************************************)
(* Properties of extractMarkdownField (SpecExtract).                       *)
(***************************************************************************)
\* a label cell without its surrounding whitespace and optional ** or __
Undecorated(cell) ==
  LET t == Trim(cell)
      a == IF Len(t) >= 2 /\ SubSeq(t, 1, 2) \in {"**", "__"} THEN SubSeq(t, 3, Len(t)) ELSE t
  IN IF Len(a) >= 2 /\ SubSeq(a, Len(a) - 1, Len(a)) \in {"**", "__"}
       THEN SubSeq(a, 1, Len(a) - 2) ELSE a

SameIgnoringCase(a, b) ==
  Len(a) = Len(b) /\ \A i \in 1..Len(a) : LowerChar(At(a, i)) = LowerChar(At(b, i))

\* the rows of the table whose label cell is the field name
MatchingRows == {i \in DOMAIN rows : SameIgnoringCase(Undecorated(rows[i].label), fieldName)}

FirstMatchingRow == rows[CHOOSE i \in MatchingRows : \A j \in MatchingRows : i <= j]

Placeholders == {"N/A", "SELECT", ""}

\* C8: the result is "Not Specified" when the value cell of the row of the
\* field is N/A, SELECT or empty (a cell with no character between its pipes
\* included), and "Not Found" when no row of the table has the field's name.
C8_PlaceholdersAndAbsence ==
  extracted # Pending =>
    IF MatchingRows = {} THEN extracted = "Not Found"
    ELSE Trim(FirstMatchingRow.value) \in Placeholders => extracted = "Not Specified"

\* C9: when a row of the table has the field's name as its label (in any
\* case, with optional ** or __ and surrounding whitespace), the result is the
\* trimmed value cell of the first such row, placeholders aside.
C9_FirstMatchingRowValue ==
  (extracted # Pending /\ MatchingRows # {}) =>
    (Trim(FirstMatchingRow.value) \notin Placeholders =>
       extracted = Trim(FirstMatchingRow.value))

(***************************************************************************)
(* Properties of formatDateForGitHub (SpecDate).                           *)
(***************************************************************************)
DaysIn(y, m) ==
  CASE m \in {4, 6, 9, 11} -> 30
    [] m = 2 -> IF (y % 4 = 0 /\ y % 100 # 0) \/ y % 400 = 0 THEN 29 ELSE 28
    [] OTHER -> 31

RealDate(y, m, d) == m \in 1..12 /\ d \in 1..DaysIn(y, m)

\* what the text's first yyyy-mm-dd is, when it is a date of the calendar
ExpectedDate(parts) ==
  IF parts.kind = "dated" /\ RealDate(parts.year, parts.month, parts.day)
    THEN NumberToString(parts.year) \o "-" \o TwoDigits(parts.month) \o "-"
         \o TwoDigits(parts.day)
    ELSE Null

\* C10: the result is the first yyyy-mm-dd of the text exactly when that is a
\* date of the calendar, and null otherwise: for an empty text, the two
\* sentinels, a text without yyyy-mm-dd, and an impossible date.
C10_FirstRealDateOrNull ==
  formatted # Pending => formatted = ExpectedDate(dateParts)

\* 30 February, which the lenient parser rolls over, is refused
C10_Witness ==
  /\ formatted = Null /\ engine = "v8"
  /\ dateParts.kind = "dated" /\ dateParts.month = 2 /\ dateParts.day = 30
  /\ dateParts.before # ""

(***************************************************************************)
(* Properties of the template renderer (SpecRender).                       *)
(***************************************************************************)
Contains(text, part) == \E i \in 1..Len(text) : StartsWithAt(text, i, part)

\* the placeholder tokens of the replacements object
RecognisedTokens == {replacements[i][1] : i \in DOMAIN replacements}

\* a piece of the form {{...}}
IsToken(piece) ==
  /\ Len(piece) > 4
  /\ SubSeq(piece, 1, 2) = "{{"
  /\ SubSeq(piece, Len(piece) - 1, Len(piece)) = "}}"

\* the value the replacements object gives a token
ValueOf(token) ==
  replacements[CHOOSE i \in DOMAIN replacements : replacements[i][1] = token][2]

\* every recognised token of the pieces replaced by its value at once
RECURSIVE Simultaneous(_)
Simultaneous(parts) ==
  IF parts = <<>> THEN ""
  ELSE (IF Head(parts) \in RecognisedTokens THEN ValueOf(Head(parts)) ELSE Head(parts))
       \o Simultaneous(Tail(parts))

AllTokensRecognised ==
  \A k \in DOMAIN templateParts : IsToken(templateParts[k]) => templateParts[k] \in RecognisedTokens

NoValueHasBrace ==
  \A i \in DOMAIN replacements :
    ~Contains(replacements[i][2], "{") /\ ~Contains(replacements[i][2], "}")

NoTokenSurvives == \A token \in RecognisedTokens : ~Contains(mirroredIssueBody, token)

\* C11 as stated: when every token of the template is a recognised one, the
\* rendered body holds no recognised token, whatever the values are.
C11_NoTokenSurvives ==
  (mirroredIssueBody # Pending /\ AllTokensRecognised) => NoTokenSurvives

\* C11 amended: when every token of the template is a recognised one and no
\* value holds a brace, the rendered body holds no recognised token.
C11_NoTokenSurvivesPlainValues ==
  (mirroredIssueBody # Pending /\ AllTokensRecognised /\ NoValueHasBrace) => NoTokenSurvives

\* the template file of the repository rendered with values free of braces
C11_Witness ==
  /\ mirroredIssueBody # Pending
  /\ templateParts = MirrorTemplateParts
  /\ NoValueHasBrace
  /\ Contains(mirroredIssueBody, "| **Priority**              | P1 ")

\* C12: the replacement loop gives what replacing every token of the
\* template at once gives: each value stands verbatim where its token stood.
C12_SequentialIsSimultaneous ==
  mirroredIssueBody # Pending => mirroredIssueBody = Simultaneous(templateParts)

\* C13: a template without recognised token is rendered unchanged, and a
\* token that is not a recognised one is still in the rendered body.
C13_UnknownTokensKept ==
  mirroredIssueBody # Pending =>
    /\ (\A k \in DOMAIN templateParts : templateParts[k] \notin RecognisedTokens)
          => mirroredIssueBody = template
    /\ \A k \in DOMAIN templateParts :
          (IsToken(templateParts[k]) /\ templateParts[k] \notin RecognisedTokens)
            => Contains(mirroredIssueBody, templateParts[k])

\* a template made of a token in another case and a token of no key
C13_Witness ==
  /\ templateParts = <<"{{priority}}", "{{OTHER}}">>
  /\ mirroredIssueBody = "{{priority}}{{OTHER}}"
  /\ failed = Null

(***************************************************************************)
(* Properties of the mirror issue and of the Project sync (Spec).          *)
(***************************************************************************)
\* the calls of one operation, in order
CallsOf(op) == SelectSeq(calls, LAMBDA c : c.op = op)

\* C14: the mirror issue is requested in the configured repository with the
\* title of the source issue, the rendered template as its body, the source
\* labels in their order followed by "mirrored-incident", and the source
\* assignees, which are left out when there is none.
C14_MirrorArguments ==
  \A i \in DOMAIN calls :
    calls[i].op = "issues.create" =>
      LET args == calls[i].args
          issue == payload.issue
      IN /\ args.owner = env["TARGET_OWNER"] /\ args.repo = env["TARGET_REPO"]
         /\ args.title = issue.title
         /\ args.body = mirroredIssueBody
         /\ Len(args.labels) = Len(issue.labels) + 1
         /\ \A k \in DOMAIN issue.labels : args.labels[k] = issue.labels[k].name
         /\ args.labels[Len(args.labels)] = "mirrored-incident"
         /\ args.hasAssignees = (Len(issue.assignees) > 0)
         /\ Len(args.assignees) = Len(issue.assignees)
         /\ \A k \in DOMAIN issue.assignees : args.assignees[k] = issue.assignees[k].login

\* a mirror issue of an issue with two labels and two assignees
C14_Witness ==
  /\ MirrorCreated
  /\ Len(payload.issue.labels) = 2 /\ Len(payload.issue.assignees) = 2
  /\ CallsOf("issues.create")[1].args.labels = <<"security", "p1", "mirrored-incident">>
  /\ CallsOf("issues.create")[1].args.assignees = <<"bob", "carol">>

MutationOps == {"updateProjectTextField", "updateProjectDateField"}

\* the mutation calls issued for a field of the board
MutationsOf(name) ==
  {k \in DOMAIN calls : calls[k].op \in MutationOps /\ calls[k].args.fieldName = name}

\* the board returned by the schema query has a field of this name
OnBoard(name) == \E k \in DOMAIN projectData.fields : projectData.fields[k].name = name

\* a value a field can be written with
Usable(value) == value \notin {Null, "", "Not Found", "Not Specified"}

\* the value handed to the j-th field update
ExpectedValue(j) ==
  IF FieldUpdates[j].kind = "date"
    THEN formatDateForGitHub(incidentDetails[FieldUpdates[j].key], engine)
    ELSE incidentDetails[FieldUpdates[j].key]

SyncReported ==
  \E k \in DOMAIN notices : notices[k] = "Successfully synced data to Project V2!"

\* the errors a call of the Project sync can come back with
SyncCallErrors ==
  {"getProjectData: 502", "Cannot read properties of null", "addIssueToProject: 502",
   "updateProjectV2ItemFieldValue: 502"}

\* C15: when the board lacks a field the sync writes, no mutation is sent for
\* that field and nothing is raised for it (every warning comes from a call
\* that came back with an error); when no call fails, the fields that are on
\* the board with a usable value are still written, the sync is reported, and
\* the run is not failed once the comment is posted.
C15_MissingFieldSkipped ==
  \A i \in DOMAIN FieldUpdates :
    (projectData.itemId # Null /\ ~OnBoard(FieldUpdates[i].field)) =>
       /\ MutationsOf(FieldUpdates[i].field) = {}
       /\ \A k \in DOMAIN warnings :
            \E e \in SyncCallErrors :
              warnings[k] = "Issue created, but failed to sync to Project: " \o e
       /\ (pc \in {"createComment", "done"} /\ warnings = <<>>) =>
            /\ SyncReported
            /\ \A j \in DOMAIN FieldUpdates :
                 (OnBoard(FieldUpdates[j].field) /\ Usable(ExpectedValue(j)))
                    => MutationsOf(FieldUpdates[j].field) # {}
       /\ (pc = "done" /\ warnings = <<>> /\ Len(comments) = 1) => failed = Null

\* the board has no priority field; the fields after it were written
C15_Witness ==
  /\ pc = "done" /\ failed = Null /\ warnings = <<>> /\ SyncReported
  /\ projectData.fields # <<>>
  /\ ~OnBoard("Category/Rating/Priority")
  /\ Usable(incidentDetails.priority)
  /\ MutationsOf("Category/Rating/Priority") = {}
  /\ MutationsOf("Assignment To") # {}
  /\ MutationsOf("Last Updated") # {}

\* C16: a mutation is only ever sent for a field that has an id on the board
\* and with a value that is not empty, "Not Found" or "Not Specified"; once
\* the sync is reported, every field that is on the board and whose value is
\* none of those has been written once, with that value.
C16_OnlyUsableValuesWritten ==
  /\ \A k \in DOMAIN calls :
       calls[k].op \in MutationOps =>
         /\ Usable(calls[k].args.value)
         /\ \E f \in DOMAIN projectData.fields :
              /\ projectData.fields[f].name = calls[k].args.fieldName
              /\ projectData.fields[f].id = calls[k].args.fieldId
  /\ SyncReported =>
       \A j \in DOMAIN FieldUpdates :
         (OnBoard(FieldUpdates[j].field) /\ Usable(ExpectedValue(j))) =>
            /\ Cardinality(MutationsOf(FieldUpdates[j].field)) = 1
            /\ \A k \in MutationsOf(FieldUpdates[j].field) :
                 calls[k].args.value = ExpectedValue(j)

\* a report with placeholders and an impossible date, on the board that has
\* every field: the sync is reported and those fields were not written
C16_Witness ==
  /\ SyncReported
  /\ Len(projectData.fields) = Len(FieldUpdates)
  /\ incidentDetails.incidentType = "Not Specified"
  /\ incidentDetails.openedDate = "2024-02-30"
  /\ MutationsOf("Incident Type") = {}
  /\ MutationsOf("Opened Date") = {}
  /\ MutationsOf("Category/Rating/Priority") # {}

\* C17: a field is written with the date mutation exactly when the board's
\* schema declares it of type DATE, and with the text mutation otherwise.
C17_MutationKindFollowsSchema ==
  \A k \in DOMAIN calls :
    calls[k].op \in MutationOps =>
      \A f \in DOMAIN projectData.fields :
        projectData.fields[f].name = calls[k].args.fieldName =>
          ((calls[k].op = "updateProjectDateField") <=> (projectData.fields[f].dataType = "DATE"))

\* the place of a call in the order of a run
OpRank(call) ==
  CASE call.op = "drive.files.export" -> 1
    [] call.op = "issues.create" -> 2
    [] call.op = "getProjectData" -> 3
    [] call.op = "addIssueToProject" -> 4
    [] call.op \in MutationOps ->
         4 + (CHOOSE i \in DOMAIN FieldUpdates : FieldUpdates[i].field = call.args.fieldName)
    [] call.op = "issues.createComment" -> 5 + Len(FieldUpdates)

\* the await a call suspends the run at
AwaitOf(call) ==
  CASE call.op = "drive.files.export" -> "export"
    [] call.op = "issues.create" -> "create"
    [] call.op \in MutationOps -> "updateField"
    [] call.op = "issues.createComment" -> "createComment"
    [] OTHER -> call.op

\* C18: the calls of a run are made in the fixed order: export, mirror issue,
\* schema query, attachment, the field mutations in their listed order (text
\* before date), comment; none is made twice, none before the steps it
\* follows, and at most one, the last made, is awaited at any time.
C18_CallsInOrder ==
  /\ \A k \in DOMAIN calls : k > 1 => OpRank(calls[k - 1]) < OpRank(calls[k])
  /\ \A k \in DOMAIN calls :
       /\ calls[k].op = "drive.files.export" => k = 1
       /\ calls[k].op = "issues.create" => k = 2
       /\ calls[k].op = "getProjectData" => k = 3
       /\ calls[k].op = "addIssueToProject" => k = 4
       /\ calls[k].op \in MutationOps => (k > 4 /\ calls[4].op = "addIssueToProject")
       /\ calls[k].op = "issues.createComment" => (k > 3 /\ k = Len(calls))
       /\ calls[k].op = "updateProjectTextField" =>
            \A h \in 1..k : calls[h].op # "updateProjectDateField"
  /\ pc = "start" => calls = <<>>
  /\ pc \notin {"start", "done"} => (calls # <<>> /\ AwaitOf(calls[Len(calls)]) = pc)

\* a run that made every call: the four first, fourteen mutations, the comment
C18_Witness ==
  /\ pc = "done" /\ Len(comments) = 1
  /\ Len(calls) = 5 + Len(FieldUpdates)
  /\ calls[5].op = "updateProjectTextField"
  /\ calls[Len(calls) - 1].op = "updateProjectDateField"

\* the characters of a document identifier
IdAlphabet == "ABCDEFGHIJKLMNOPQRSTUVWXYZabcdefghijklmnopqrstuvwxyz0123456789-_"

IsIdChar(c) == \E k \in 1..Len(IdAlphabet) : At(IdAlphabet, k) = c

\* the places of the description where a document link begins
LinkStarts(description) ==
  {i \in 1..Len(description) :
     /\ i + Len(GoogleDocPrefix) <= Len(description)
     /\ SubSeq(description, i, i + Len(GoogleDocPrefix) - 1) = GoogleDocPrefix
     /\ IsIdChar(At(description, i + Len(GoogleDocPrefix)))}

\* the identifier of the first link: the longest run of identifier characters
FirstDocId(description) ==
  LET i == CHOOSE k \in LinkStarts(description) : \A j \in LinkStarts(description) : k <= j
      from == i + Len(GoogleDocPrefix)
      ends == {j \in from..Len(description) :
                 /\ \A k \in from..j : IsIdChar(At(description, k))
                 /\ (j = Len(description) \/ ~IsIdChar(At(description, j + 1)))}
  IN SubSeq(description, from, CHOOSE j \in ends : TRUE)

\* the rows of the exported report labelled Priority, when it is a table
PriorityRows ==
  IF \E r \in ReportRows : RenderRows(r) = markdownText
    THEN LET r == CHOOSE t \in ReportRows : RenderRows(t) = markdownText
         IN SelectSeq(r, LAMBDA row : SameIgnoringCase(Undecorated(row.label), "Priority"))
    ELSE <<>>

\* C19: the document identifier of a run is that of the first link of the
\* description, its longest run of identifier characters; attachmentOptions
\* is the document's address with that identifier; priority is the trimmed
\* value of the report's Priority row.
C19_DocIdAndPriority ==
  /\ docId # Null => docId = FirstDocId(OrEmpty(payload.issue.body))
  /\ incidentDetails # NoDetails =>
       /\ incidentDetails.attachmentOptions =
            "https://docs.google.com/document/d/" \o FirstDocId(OrEmpty(payload.issue.body))
       /\ (PriorityRows # <<>> /\ Trim(PriorityRows[1].value) \notin Placeholders)
            => incidentDetails.priority = Trim(PriorityRows[1].value)

\* C20: a run that has extracted the incident's fields has set one output,
\* whose value holds every field of incidentDetails.
C20_DetailsExposedAsOutput ==
  incidentDetails # NoDetails =>
    /\ Len(outputs) = 1
    /\ outputs[1].value = incidentDetails

\* a step in which a call of the Project sync comes back with an error
SyncCallFails == pc \in SyncAwaits /\ warnings' # warnings

\* the failure ends the phase: the one call made next is the comment, and no
\* call at all is made after a warning
FailureEndsSync ==
  /\ SyncCallFails =>
       /\ Len(calls') = Len(calls) + 1
       /\ calls'[Len(calls')].op = "issues.createComment"
       /\ \A k \in DOMAIN calls : calls'[k] = calls[k]
       /\ pc' = "createComment"
  /\ warnings # <<>> => (calls' = calls /\ pc' = "done")

\* C21: the first call of the Project sync that comes back with an error
\* (schema query, attachment, or a field mutation) ends the sync: no field
\* mutation is made after it, and the back-link comment is requested next.
C21_FirstFailureEndsSync == [][FailureEndsSync]_vars

\* a text mutation failed: the dates of the report, which the board has
\* fields for, were not written, and the comment was posted
C21_Witness ==
  /\ pc = "done" /\ Len(warnings) = 1 /\ Len(comments) = 1
  /\ Len(calls) >= 2 /\ calls[Len(calls) - 1].op = "updateProjectTextField"
  /\ OnBoard("Opened Date") /\ Usable(ExpectedValue(12))
  /\ MutationsOf("Opened Date") = {}
  /\ \A k \in DOMAIN calls : calls[k].op # "updateProjectDateField"

(***************************************************************************)
(* Properties of the date handed to the Project board (SpecDate).          *)
(***************************************************************************)
DigitValue(c) == (CHOOSE k \in 1..Len(Digits) : At(Digits, k) = c) - 1

\* ten characters: four digits, a dash, two digits, a dash, two digits
HasDateShape(text) ==
  /\ Len(text) = 10
  /\ \A k \in {1, 2, 3, 4, 6, 7, 9, 10} : \E d \in 1..Len(Digits) : At(text, k) = At(Digits, d)
  /\ At(text, 5) = "-" /\ At(text, 8) = "-"

\* a text of that shape names a date of the calendar
NamesRealDate(text) ==
  RealDate(1000 * DigitValue(At(text, 1)) + 100 * DigitValue(At(text, 2))
             + 10 * DigitValue(At(text, 3)) + DigitValue(At(text, 4)),
           10 * DigitValue(At(text, 6)) + DigitValue(At(text, 7)),
           10 * DigitValue(At(text, 9)) + DigitValue(At(text, 10)))

\* C22: a result of formatDateForGitHub that is not null has the shape
\* yyyy-mm-dd, names a date of the calendar, and is returned unchanged when
\* formatted again; handed to updateProjectDateField it is never refused for
\* its format, and every value sent in the date mutation is such a result.
C22_DateResultsAreStrict ==
  /\ formatted \notin {Pending, Null} =>
       /\ HasDateShape(formatted)
       /\ NamesRealDate(formatted)
       /\ formatDateForGitHub(formatted, engine) = formatted
  /\ dateUpdate # "refused"
  /\ dateUpdate = "sent" => (formatted # Null /\ HasDateShape(formatted))

\* a leap day found inside a longer text is sent as ten characters
C22_Witness ==
  /\ dateUpdate = "sent"
  /\ dateParts.kind = "dated" /\ dateParts.before # "" /\ dateParts.after # ""
  /\ formatted = "2024-02-29"

(***************************************************************************)
(* How often, and in what order, a run writes to the target repository.    *)
(***************************************************************************)
ProjectOps == {"getProjectData", "addIssueToProject"} \cup MutationOps

\* C23: a run creates at most one mirror issue and posts at most one
\* back-link comment; the comment is requested only after the mirror issue
\* was created, and no call of the Project board is made before that.
C23_AtMostOneMirrorAndComment ==
  /\ CallCount("issues.create") <= 1
  /\ CallCount("issues.createComment") <= 1
  /\ Len(comments) <= 1
  /\ \A k \in DOMAIN calls :
       calls[k].op \in ProjectOps \cup {"issues.createComment"} =>
         \E j \in 1..(k - 1) : calls[j].op = "issues.create"
  /\ (\E k \in DOMAIN calls : calls[k].op \in ProjectOps \cup {"issues.createComment"})
       => MirrorCreated

\* a finished run that created the mirror, wrote to the board and commented
C23_Witness ==
  /\ pc = "done" /\ MirrorCreated /\ Len(comments) = 1
  /\ CallCount("issues.create") = 1
  /\ CallCount("issues.createComment") = 1
  /\ CallCount("addIssueToProject") = 1
  /\ \E k \in DOMAIN calls : calls[k].op \in MutationOps

(***************************************************************************)
(* The shape of what extractMarkdownField returns (SpecExtract).           *)
(***************************************************************************)
Blanks == {" ", "\t", "\n", "\r"}

\* C24: whatever the table and the field name, the result of
\* extractMarkdownField is not the empty string, neither starts nor ends
\* with white space and holds no "|": it is "Not Found", "Not Specified" or
\* the trimmed, non-empty text of a cell.
C24_ExtractedIsTrimmedCell ==
  extracted # Pending =>
    /\ extracted # ""
    /\ At(extracted, 1) \notin Blanks
    /\ At(extracted, Len(extracted)) \notin Blanks
    /\ \A k \in 1..Len(extracted) : At(extracted, k) # "|"
    /\ \/ extracted \in {"Not Found", "Not Specified"}
       \/ \E cell \in ValueCells \cup LabelCells : extracted = Trim(cell)

\* a cell written with blanks around its text comes back without them
C24_Witness ==
  /\ extracted = "P1"
  /\ \E k \in DOMAIN rows : rows[k].value = " P1 "

=============================================================================
